---------------------------- MODULE Spec2Model ----------------------------
(***************************************************************************)
(* Model of the Cubase project reader (src/src/reader.rs): the scan of a   *)
(* byte buffer for the markers "PAppVersion\0" and "Plugin UID\0" and the  *)
(* decoding of the length-prefixed fields that follow them.                *)
(*                                                                         *)
(* Bytes are the integers 0..255, a buffer is a sequence of bytes, and an  *)
(* offset is 0-based as in the source (byte i of the buffer is b[i + 1]).  *)
(* A decoded text is the sequence of its code points.  An Option is a      *)
(* sequence of length at most one.                                         *)
(***************************************************************************)
EXTENDS Integers, Sequences, FiniteSets, TLC

VARIABLES
    layout,         \* ghost: the records the buffer was laid out from
    project_bytes,  \* Reader.project_bytes
    index,          \* get_project_details: the cursor
    metadata,       \* get_project_details: Option<Metadata>
    plugins,        \* get_project_details: HashSet<Plugin>
    pc,             \* "scan" (in the loop), "done" (returned), "panic", "idle"
    result,         \* Option of the value get_project_details returned
    metaAt,         \* ghost: Option of the cursor where search_metadata matched
    steps,          \* ghost: number of loop iterations taken
    call,           \* number of the call of get_project_details under way
    earlier,        \* Option of the value the call before this one returned
    file            \* Option of the bytes of the file being processed

\* What belongs to the caller of get_project_details.
caller == <<call, earlier, file>>

vars == <<layout, project_bytes, index, metadata, plugins, pc, result, metaAt, steps,
          call, earlier, file>>

-----------------------------------------------------------------------------
(* Literals of the source, as code points.                                 *)

\* b"Plugin UID\0"
PLUGIN_UID_SEARCH_TERM == <<80, 108, 117, 103, 105, 110, 32, 85, 73, 68, 0>>

\* b"PAppVersion\0"
APP_VERSION_SEARCH_TERM == <<80, 65, 112, 112, 86, 101, 114, 115, 105, 111, 110, 0>>

\* 'P'
LETTER_P == 80

\* "Version "
VERSION_PREFIX == <<86, 101, 114, 115, 105, 111, 110, 32>>

\* "Unspecified"
UNSPECIFIED == <<85, 110, 115, 112, 101, 99, 105, 102, 105, 101, 100>>

\* "Plugin Name"
PLUGIN_NAME_KEY == <<80, 108, 117, 103, 105, 110, 32, 78, 97, 109, 101>>

\* "Original Plugin Name"
ORIGINAL_PLUGIN_NAME_KEY ==
    <<79, 114, 105, 103, 105, 110, 97, 108, 32>> \o PLUGIN_NAME_KEY

\* Bytes skipped after each part of a record.
APP_VERSION_PADDING == 9
APPLICATION_PADDING == 3
VERSION_PADDING == 3
RELEASE_DATE_PADDING == 7
PLUGIN_UID_PADDING == 22
GUID_PADDING == 3
NAME_KEY_PADDING == 5
NAME_PADDING == 3
ORIGINAL_KEY_PADDING == 5

\* U+FFFD, what String::from_utf8_lossy puts for an invalid byte.
REPLACEMENT_CHARACTER == 65533

-----------------------------------------------------------------------------
(* Results of the helpers.                                                 *)

NoText == <<>>

NoMetadataValue ==
    [application |-> NoText, version |-> NoText, release_date |-> NoText,
     architecture |-> NoText]

NoPluginValue == [guid |-> NoText, name |-> NoText]

\* What a matcher gives back: Ok(None), Ok(Some((record, index))), Err(err), or
\* a panic raised by an out-of-range slice.
MatchNone == [tag |-> "none", err |-> "", metadata |-> NoMetadataValue,
              plugin |-> NoPluginValue, index |-> 0]

MatchErr(e) == [MatchNone EXCEPT !.tag = "err", !.err = e]

MatchPanic == [MatchNone EXCEPT !.tag = "panic"]

MatchMetadata(m, i) == [MatchNone EXCEPT !.tag = "some", !.metadata = m, !.index = i]

MatchPlugin(p, i) == [MatchNone EXCEPT !.tag = "some", !.plugin = p, !.index = i]

-----------------------------------------------------------------------------
(* Reader::get_bytes and Reader::get_token.                                *)

\* &project_bytes[index..end]: Rust panics unless index <= end <= len.
Slice(b, i, end) ==
    IF i <= end /\ end <= Len(b)
    THEN [tag |-> "some", bytes |-> SubSeq(b, i + 1, end)]
    ELSE [tag |-> "panic", bytes |-> <<>>]

\* Mutant: the bound check lets a slice end one byte past the buffer.
get_bytes_OffByOne(b, i, len) ==
    LET end == i + len
    IN  IF end > Len(b) + 1
        THEN [tag |-> "none", bytes |-> <<>>]
        ELSE Slice(b, i, end)

get_bytes(b, i, len) ==
    LET end == i + len
    IN  IF end > Len(b)
        THEN [tag |-> "none", bytes |-> <<>>]
        ELSE Slice(b, i, end)

\* Mutant: the text is cut at the last nul byte of the payload.
NulPosition_Last(bytes) ==
    IF \E k \in 1..Len(bytes) : bytes[k] = 0
    THEN <<(CHOOSE k \in 1..Len(bytes) :
                bytes[k] = 0 /\ \A j \in (k + 1)..Len(bytes) : bytes[j] # 0) - 1>>
    ELSE <<>>

\* token_bytes.iter().position(|&byte| byte == 0), as an Option.
NulPosition(bytes) ==
    IF \E k \in 1..Len(bytes) : bytes[k] = 0
    THEN <<(CHOOSE k \in 1..Len(bytes) :
                bytes[k] = 0 /\ \A j \in 1..(k - 1) : bytes[j] # 0) - 1>>
    ELSE <<>>

\* String::from_utf8_lossy, for the bytes the model puts in a buffer: ASCII
\* bytes, which decode to themselves, and the bytes 0xF5..0xFF, which occur in
\* no UTF-8 sequence, so that each is replaced by U+FFFD.
from_utf8_lossy(bytes) ==
    [k \in 1..Len(bytes) |->
        IF bytes[k] < 128 THEN bytes[k] ELSE REPLACEMENT_CHARACTER]

\* Mutant: a payload that runs past the end is decoded from the bytes there are.
get_token_Lenient(b, i) ==
    IF i >= Len(b)
    THEN [tag |-> "err", err |-> "LengthBeyondEOF", text |-> <<>>, len |-> 0]
    ELSE LET len == b[i + 1]
             last == IF i + 1 + len > Len(b) THEN Len(b) ELSE i + 1 + len
         IN  [tag |-> "ok", err |-> "",
              text |-> from_utf8_lossy(SubSeq(b, i + 2, last)), len |-> len + 1]

TokenErr(e) == [tag |-> "err", err |-> e, text |-> NoText, len |-> 0]

get_token(b, i) ==
    LET len_bytes == get_bytes(b, i, 1)
    IN  IF len_bytes.tag = "panic" THEN [TokenErr("") EXCEPT !.tag = "panic"]
        ELSE IF len_bytes.tag = "none" THEN TokenErr("LengthBeyondEOF")
        ELSE
          LET len == len_bytes.bytes[1]
              token_bytes == get_bytes(b, i + 1, len)
          IN  IF token_bytes.tag = "panic" THEN [TokenErr("") EXCEPT !.tag = "panic"]
              ELSE IF token_bytes.tag = "none" THEN TokenErr("TokenBeyondEOF")
              ELSE
                LET nul_index == NulPosition(token_bytes.bytes)
                    token == IF nul_index = <<>>
                             THEN from_utf8_lossy(token_bytes.bytes)
                             ELSE from_utf8_lossy(
                                      SubSeq(token_bytes.bytes, 1, nul_index[1]))
                IN  [tag |-> "ok", err |-> "", text |-> token, len |-> len + 1]

-----------------------------------------------------------------------------
(* Reader::search_metadata and Reader::search_plugin.                      *)

IsPrefix(p, s) == Len(p) <= Len(s) /\ SubSeq(s, 1, Len(p)) = p

\* Mutant: the version is kept as decoded.
StripVersionPrefix_Keep(version) == version

\* version.strip_prefix("Version ").map(ToString::to_string).unwrap_or(version)
StripVersionPrefix(version) ==
    IF IsPrefix(VERSION_PREFIX, version)
    THEN SubSeq(version, Len(VERSION_PREFIX) + 1, Len(version))
    ELSE version

\* Mutant: an architecture that fails to decode is left empty.
Architecture_Empty(b, i) ==
    LET t == get_token(b, i)
    IN  IF t.tag = "ok"
        THEN [tag |-> "ok", text |-> t.text, index |-> i + t.len]
        ELSE [tag |-> t.tag, text |-> NoText, index |-> i]

\* Mutant: the cursor moves past the length byte of an architecture that
\* fails to decode.
Architecture_SkipsLength(b, i) ==
    LET t == get_token(b, i)
    IN  IF t.tag = "ok"
        THEN [tag |-> "ok", text |-> t.text, index |-> i + t.len]
        ELSE [tag |-> t.tag, text |-> UNSPECIFIED, index |-> i + 1]

\* The optional architecture field, decoded at offset i: the text and the
\* cursor after it, or "Unspecified" and the cursor left at i.
Architecture(b, i) ==
    LET t == get_token(b, i)
    IN  IF t.tag = "ok"
        THEN [tag |-> "ok", text |-> t.text, index |-> i + t.len]
        ELSE [tag |-> t.tag, text |-> UNSPECIFIED, index |-> i]

\* match self.get_bytes(index, TERM.len()) { Some(TERM) => (), _ => return Ok(None) }
MatchSearchTerm(b, i, term) ==
    LET got == get_bytes(b, i, Len(term))
    IN  IF got.tag = "panic" THEN "panic"
        ELSE IF got.tag = "some" /\ got.bytes = term THEN "match"
        ELSE "none"

\* Mutant: the marker is compared without its nul terminator.
MatchAppVersion_NoNul(b, i) ==
    MatchSearchTerm(b, i, SubSeq(APP_VERSION_SEARCH_TERM, 1,
                                 Len(APP_VERSION_SEARCH_TERM) - 1))

MatchAppVersion(b, i) == MatchSearchTerm(b, i, APP_VERSION_SEARCH_TERM)

MatchPluginUid(b, i) == MatchSearchTerm(b, i, PLUGIN_UID_SEARCH_TERM)

\* Mutant: the error of the application decode is returned as it is.
search_metadata_Propagates(b, index0) ==
    LET marker == MatchAppVersion(b, index0)
    IN  IF marker = "panic" THEN MatchPanic
        ELSE IF marker = "none" THEN MatchNone
        ELSE
          LET i1 == index0 + Len(APP_VERSION_SEARCH_TERM) + APP_VERSION_PADDING
              application == get_token(b, i1)
          IN  IF application.tag = "panic" THEN MatchPanic
              ELSE IF application.tag = "err" THEN MatchErr(application.err)
              ELSE
          LET i2 == i1 + application.len + APPLICATION_PADDING
              version == get_token(b, i2)
          IN  IF version.tag = "panic" THEN MatchPanic
              ELSE IF version.tag = "err" THEN MatchErr("NoVersion")
              ELSE
          LET i3 == i2 + version.len + VERSION_PADDING
              release_date == get_token(b, i3)
          IN  IF release_date.tag = "panic" THEN MatchPanic
              ELSE IF release_date.tag = "err" THEN MatchErr("NoReleaseDate")
              ELSE
          LET i4 == i3 + release_date.len + RELEASE_DATE_PADDING
              architecture == Architecture(b, i4)
          IN  IF architecture.tag = "panic" THEN MatchPanic
              ELSE MatchMetadata(
                     [application |-> application.text,
                      version |-> StripVersionPrefix(version.text),
                      release_date |-> release_date.text,
                      architecture |-> architecture.text],
                     architecture.index)

search_metadata(b, index0) ==
    LET marker == MatchAppVersion(b, index0)
    IN  IF marker = "panic" THEN MatchPanic
        ELSE IF marker = "none" THEN MatchNone
        ELSE
          LET i1 == index0 + Len(APP_VERSION_SEARCH_TERM) + APP_VERSION_PADDING
              application == get_token(b, i1)
          IN  IF application.tag = "panic" THEN MatchPanic
              ELSE IF application.tag = "err" THEN MatchErr("NoApplication")
              ELSE
          LET i2 == i1 + application.len + APPLICATION_PADDING
              version == get_token(b, i2)
          IN  IF version.tag = "panic" THEN MatchPanic
              ELSE IF version.tag = "err" THEN MatchErr("NoVersion")
              ELSE
          LET i3 == i2 + version.len + VERSION_PADDING
              release_date == get_token(b, i3)
          IN  IF release_date.tag = "panic" THEN MatchPanic
              ELSE IF release_date.tag = "err" THEN MatchErr("NoReleaseDate")
              ELSE
          LET i4 == i3 + release_date.len + RELEASE_DATE_PADDING
              architecture == Architecture(b, i4)
          IN  IF architecture.tag = "panic" THEN MatchPanic
              ELSE MatchMetadata(
                     [application |-> application.text,
                      version |-> StripVersionPrefix(version.text),
                      release_date |-> release_date.text,
                      architecture |-> architecture.text],
                     architecture.index)

\* Mutant: a key that starts with "Plugin Name" is accepted.
IsPluginNameKey_Prefix(key) == IsPrefix(PLUGIN_NAME_KEY, key)

\* The check of the key decoded after the GUID (reader.rs line 142).
IsPluginNameKey(key) == key = PLUGIN_NAME_KEY

\* Mutant: the key after the name is never taken for "Original Plugin Name".
IsOriginalPluginNameKey_Never(key) == FALSE

\* The check of the key decoded after the name (reader.rs line 156).
IsOriginalPluginNameKey(key) == key = ORIGINAL_PLUGIN_NAME_KEY

\* Mutant: a key other than "Original Plugin Name" is consumed with the record.
search_plugin_ConsumesKey(b, index0) ==
    LET marker == MatchPluginUid(b, index0)
    IN  IF marker = "panic" THEN MatchPanic
        ELSE IF marker = "none" THEN MatchNone
        ELSE
          LET i1 == index0 + Len(PLUGIN_UID_SEARCH_TERM) + PLUGIN_UID_PADDING
              guid == get_token(b, i1)
          IN  IF guid.tag = "panic" THEN MatchPanic
              ELSE IF guid.tag = "err" THEN MatchErr("NoPluginGUID")
              ELSE
          LET i2 == i1 + guid.len + GUID_PADDING
              key == get_token(b, i2)
          IN  IF key.tag = "panic" THEN MatchPanic
              ELSE IF key.tag = "err" THEN MatchErr("NoPluginName")
              ELSE IF ~IsPluginNameKey(key.text) THEN MatchErr("NoPluginName")
              ELSE
          LET i3 == i2 + key.len + NAME_KEY_PADDING
              name == get_token(b, i3)
          IN  IF name.tag = "panic" THEN MatchPanic
              ELSE IF name.tag = "err" THEN MatchErr("NoPluginName")
              ELSE
          LET i4 == i3 + name.len + NAME_PADDING
              key2 == get_token(b, i4)
          IN  IF key2.tag = "panic" THEN MatchPanic
              ELSE IF key2.tag = "err" THEN MatchErr("NoTokenAfterPluginName")
              ELSE IF ~IsOriginalPluginNameKey(key2.text)
              THEN MatchPlugin([guid |-> guid.text, name |-> name.text],
                               i4 + key2.len)
              ELSE
          LET i5 == i4 + key2.len + ORIGINAL_KEY_PADDING
              original_name == get_token(b, i5)
          IN  IF original_name.tag = "panic" THEN MatchPanic
              ELSE IF original_name.tag = "err" THEN MatchErr("NoOriginalPluginName")
              ELSE MatchPlugin([guid |-> guid.text, name |-> original_name.text],
                               i5 + original_name.len)

search_plugin(b, index0) ==
    LET marker == MatchPluginUid(b, index0)
    IN  IF marker = "panic" THEN MatchPanic
        ELSE IF marker = "none" THEN MatchNone
        ELSE
          LET i1 == index0 + Len(PLUGIN_UID_SEARCH_TERM) + PLUGIN_UID_PADDING
              guid == get_token(b, i1)
          IN  IF guid.tag = "panic" THEN MatchPanic
              ELSE IF guid.tag = "err" THEN MatchErr("NoPluginGUID")
              ELSE
          LET i2 == i1 + guid.len + GUID_PADDING
              key == get_token(b, i2)
          IN  IF key.tag = "panic" THEN MatchPanic
              ELSE IF key.tag = "err" THEN MatchErr("NoPluginName")
              ELSE IF ~IsPluginNameKey(key.text) THEN MatchErr("NoPluginName")
              ELSE
          LET i3 == i2 + key.len + NAME_KEY_PADDING
              name == get_token(b, i3)
          IN  IF name.tag = "panic" THEN MatchPanic
              ELSE IF name.tag = "err" THEN MatchErr("NoPluginName")
              ELSE
          LET i4 == i3 + name.len + NAME_PADDING
              key2 == get_token(b, i4)
          IN  IF key2.tag = "panic" THEN MatchPanic
              ELSE IF key2.tag = "err" THEN MatchErr("NoTokenAfterPluginName")
              ELSE IF ~IsOriginalPluginNameKey(key2.text)
              THEN MatchPlugin([guid |-> guid.text, name |-> name.text], i4)
              ELSE
          LET i5 == i4 + key2.len + ORIGINAL_KEY_PADDING
              original_name == get_token(b, i5)
          IN  IF original_name.tag = "panic" THEN MatchPanic
              ELSE IF original_name.tag = "err" THEN MatchErr("NoOriginalPluginName")
              ELSE MatchPlugin([guid |-> guid.text, name |-> original_name.text],
                               i5 + original_name.len)

-----------------------------------------------------------------------------
(* The buffers of the model.  A buffer is laid out from segments (metadata *)
(* records, plugin records, single bytes): an optional leading four-field  *)
(* metadata record, as project files have near their top, and then at most *)
(* MaxSegs segments of any kind.  It is cut inside its last segment, so    *)
(* that every truncation of every layout is a buffer.  The layout is kept  *)
(* to state what the reader should find.                                   *)

MaxSegs == 2

\* A field to encode: its text, and how the payload carries it.
\*   "nul": text, nul          "pad": text, nul, one more payload byte
\*   "raw": text alone         "bad": text, the invalid byte 0xFF, nul
Field(text, style) == [text |-> text, style |-> style]

Payload(f) ==
    CASE f.style = "nul" -> f.text \o <<0>>
      [] f.style = "pad" -> f.text \o <<0, 120>>
      [] f.style = "raw" -> f.text
      [] f.style = "bad" -> f.text \o <<255, 0>>

\* The text a reader of the format should decode from the field.
FieldText(f) ==
    IF f.style = "bad" THEN f.text \o <<REPLACEMENT_CHARACTER>> ELSE f.text

EncodeField(f) == <<Len(Payload(f))>> \o Payload(f)

Pad(n) == [k \in 1..n |-> 0]

MetaNames == {"M1", "M2"}

PluginNames == {"P1", "P2", "P3"}

JunkNames == {"x"}

SegmentNames == MetaNames \cup PluginNames \cup JunkNames

\* arch: "tok" (an architecture field follows the release date's padding) or
\* "none" (the record ends with that padding, as before the 64-bit versions).
MetaRecord(s) ==
    CASE s = "M1" -> [application |-> Field(<<67>>, "raw"),
                      prefixed |-> TRUE,
                      version |-> Field(<<55>>, "nul"),
                      release_date |-> Field(<<50>>, "pad"),
                      arch |-> "tok",
                      architecture |-> Field(<<87>>, "nul")]
      [] s = "M2" -> [application |-> Field(<<68>>, "nul"),
                      prefixed |-> FALSE,
                      version |-> Field(<<56>> \o VERSION_PREFIX, "bad"),
                      release_date |-> Field(<<51>>, "raw"),
                      arch |-> "none",
                      architecture |-> Field(<<>>, "raw")]

PluginRecord(s) ==
    CASE s = "P1" -> [guid |-> Field(<<103>>, "nul"),
                      key |-> Field(PLUGIN_NAME_KEY, "nul"),
                      name |-> Field(<<110>>, "nul"),
                      next |-> Field(<<75>>, "raw"),
                      original |-> Field(<<>>, "raw")]
      [] s = "P2" -> [guid |-> Field(<<103>>, "pad"),
                      key |-> Field(PLUGIN_NAME_KEY, "raw"),
                      name |-> Field(<<116>>, "nul"),
                      next |-> Field(ORIGINAL_PLUGIN_NAME_KEY, "nul"),
                      original |-> Field(<<109>>, "bad")]
      [] s = "P3" -> [guid |-> Field(<<103>>, "nul"),
                      key |-> Field(PLUGIN_NAME_KEY \o <<115>>, "nul"),
                      name |-> Field(<<110>>, "nul"),
                      next |-> Field(<<75>>, "nul"),
                      original |-> Field(<<>>, "raw")]

HasOriginal(p) == p.next.text = ORIGINAL_PLUGIN_NAME_KEY

VersionField(m) ==
    IF m.prefixed
    THEN Field(VERSION_PREFIX \o m.version.text, m.version.style)
    ELSE m.version

\* The bytes of a metadata record up to the architecture field.
EncodeMetaHead(m) ==
    APP_VERSION_SEARCH_TERM \o Pad(APP_VERSION_PADDING)
    \o EncodeField(m.application) \o Pad(APPLICATION_PADDING)
    \o EncodeField(VersionField(m)) \o Pad(VERSION_PADDING)
    \o EncodeField(m.release_date) \o Pad(RELEASE_DATE_PADDING)

EncodeMeta(m) ==
    EncodeMetaHead(m) \o
    CASE m.arch = "tok" -> EncodeField(m.architecture)
      [] m.arch = "none" -> <<>>

\* The bytes of a plugin record up to the key that follows the name.
EncodePluginHead(p) ==
    PLUGIN_UID_SEARCH_TERM \o Pad(PLUGIN_UID_PADDING)
    \o EncodeField(p.guid) \o Pad(GUID_PADDING)
    \o EncodeField(p.key) \o Pad(NAME_KEY_PADDING)
    \o EncodeField(p.name) \o Pad(NAME_PADDING)

EncodePlugin(p) ==
    EncodePluginHead(p) \o EncodeField(p.next) \o
    IF HasOriginal(p)
    THEN Pad(ORIGINAL_KEY_PADDING) \o EncodeField(p.original)
    ELSE <<>>

\* A plugin record whose key after the name holds a marker: the payload of the
\* key field is the marker, and the rest of the marker's record follows it.
\*   "P4": the key is "Plugin UID\0", the marker of the record P1
\*   "P5": the key is "PAppVersion\0", the marker of the record M1
MarkerKeyNames == {"P4", "P5"}

MarkerKeyRecord(s) ==
    [guid |-> Field(<<104>>, "nul"),
     key |-> Field(PLUGIN_NAME_KEY, "nul"),
     name |-> Field(<<107>>, "nul"),
     next |-> CASE s = "P4" -> Field(SubSeq(PLUGIN_UID_SEARCH_TERM, 1,
                                            Len(PLUGIN_UID_SEARCH_TERM) - 1), "nul")
                [] s = "P5" -> Field(SubSeq(APP_VERSION_SEARCH_TERM, 1,
                                            Len(APP_VERSION_SEARCH_TERM) - 1), "nul"),
     original |-> Field(<<>>, "raw")]

\* The bytes that follow the marker in the record the key field begins.
AfterMarker(s) ==
    CASE s = "P4" -> SubSeq(EncodePlugin(PluginRecord("P1")),
                            Len(PLUGIN_UID_SEARCH_TERM) + 1,
                            Len(EncodePlugin(PluginRecord("P1"))))
      [] s = "P5" -> SubSeq(EncodeMeta(MetaRecord("M1")),
                            Len(APP_VERSION_SEARCH_TERM) + 1,
                            Len(EncodeMeta(MetaRecord("M1"))))

EncodeSegment(s) ==
    CASE s \in MetaNames -> EncodeMeta(MetaRecord(s))
      [] s \in PluginNames -> EncodePlugin(PluginRecord(s))
      [] s \in MarkerKeyNames -> EncodePlugin(MarkerKeyRecord(s)) \o AfterMarker(s)
      [] s = "x" -> <<120>>

RECURSIVE Encode(_)
Encode(lay) ==
    IF lay = <<>> THEN <<>>
    ELSE Encode(SubSeq(lay, 1, Len(lay) - 1)) \o EncodeSegment(lay[Len(lay)])

\* The 0-based offset at which segment k of the layout starts.
SegStart(lay, k) == Len(Encode(SubSeq(lay, 1, k - 1)))

Leads == {<<>>, <<"M1">>}

Layouts ==
    {lead \o body : lead \in Leads,
                    body \in UNION {[1..n -> SegmentNames] : n \in 0..MaxSegs}}

\* The lengths a layout is cut to: every length that ends in its last segment.
Cuts(lay) ==
    IF lay = <<>> THEN {0}
    ELSE (SegStart(lay, Len(lay)) + 1)..Len(Encode(lay))

-----------------------------------------------------------------------------
(* Reader::get_project_details, one action per way through the loop body.  *)

NoResult == <<>>

Ok(m, ps) == <<[ok |-> TRUE, err |-> "", metadata |-> m, plugins |-> ps]>>

Err(e) == <<[ok |-> FALSE, err |-> e, metadata |-> NoMetadataValue, plugins |-> {}]>>

Init ==
    \E lay \in Layouts :
        \E cut \in Cuts(lay) :
            /\ layout = lay
            /\ project_bytes = SubSeq(Encode(lay), 1, cut)
            /\ index = 0
            /\ metadata = <<>>
            /\ plugins = {}
            /\ pc = "scan"
            /\ result = NoResult
            /\ metaAt = <<>>
            /\ steps = 0
            /\ call = 1
            /\ earlier = <<>>
            /\ file = <<>>

\* while index < self.project_bytes.len()
LoopCondition(b, i) == i < Len(b)

\* self.project_bytes[index]: Rust panics unless index < len.
ByteAt(b, i) == IF i < Len(b) THEN <<b[i + 1]>> ELSE <<>>

\* The loop body is entered and the byte at the cursor has been read.
AtByte ==
    /\ pc = "scan"
    /\ LoopCondition(project_bytes, index)
    /\ ByteAt(project_bytes, index) # <<>>

AtLetterP == AtByte /\ ByteAt(project_bytes, index)[1] = LETTER_P

\* Mutant: search_metadata is called whether or not Metadata was found.
TryMetadata_Always == search_metadata(project_bytes, index)

\* if metadata.is_none() { self.search_metadata(index)? ... }
TryMetadata ==
    IF metadata = <<>> THEN search_metadata(project_bytes, index) ELSE MatchNone

Panic ==
    /\ pc' = "panic"
    /\ UNCHANGED <<layout, project_bytes, caller, index, metadata, plugins, result, metaAt>>

Return(r) ==
    /\ pc' = "done"
    /\ result' = r
    /\ UNCHANGED <<layout, project_bytes, caller, index, metadata, plugins, metaAt>>

\* The byte at the cursor is not 'P'.
SkipByte ==
    /\ pc = "scan"
    /\ LoopCondition(project_bytes, index)
    /\ ~AtLetterP
    /\ steps' = steps + 1
    /\ IF ByteAt(project_bytes, index) = <<>>
       THEN Panic
       ELSE /\ index' = index + 1
            /\ UNCHANGED <<layout, project_bytes, caller, metadata, plugins, pc, result, metaAt>>

\* search_metadata matched at the cursor.
MetadataFound ==
    /\ AtLetterP
    /\ TryMetadata.tag = "some"
    /\ metadata' = <<TryMetadata.metadata>>
    /\ index' = TryMetadata.index
    /\ metaAt' = <<index>>
    /\ steps' = steps + 1
    /\ UNCHANGED <<layout, project_bytes, caller, plugins, pc, result>>

\* search_metadata failed on a mandatory field: the ? returns its error.
MetadataError ==
    /\ AtLetterP
    /\ TryMetadata.tag \in {"err", "panic"}
    /\ steps' = steps + 1
    /\ IF TryMetadata.tag = "panic" THEN Panic
       ELSE Return(Err(TryMetadata.err))

\* Mutant: the plugin found replaces the set.
PluginFound_Replace ==
    /\ pc = "scan"
    /\ index < Len(project_bytes)
    /\ project_bytes[index + 1] = LETTER_P
    /\ (IF metadata = <<>> THEN search_metadata(project_bytes, index)
                           ELSE MatchNone).tag = "none"
    /\ LET found == search_plugin(project_bytes, index)
       IN  /\ found.tag = "some"
           /\ plugins' = {found.plugin}
           /\ index' = found.index
    /\ steps' = steps + 1
    /\ UNCHANGED <<layout, project_bytes, caller, metadata, pc, result, metaAt>>

\* Mutant: search_plugin is tried only once Metadata has been found.
PluginFound_AfterMetadata ==
    /\ pc = "scan"
    /\ index < Len(project_bytes)
    /\ project_bytes[index + 1] = LETTER_P
    /\ (IF metadata = <<>> THEN search_metadata(project_bytes, index)
                           ELSE MatchNone).tag = "none"
    /\ LET found == search_plugin(project_bytes, index)
       IN  /\ found.tag = "some"
           /\ IF metadata = <<>>
              THEN index' = index + 1 /\ UNCHANGED plugins
              ELSE /\ plugins' = plugins \cup {found.plugin}
                   /\ index' = found.index
    /\ steps' = steps + 1
    /\ UNCHANGED <<layout, project_bytes, caller, metadata, pc, result, metaAt>>

\* search_plugin matched at the cursor.
PluginFound ==
    /\ AtLetterP
    /\ TryMetadata.tag = "none"
    /\ LET found == search_plugin(project_bytes, index)
       IN  /\ found.tag = "some"
           /\ plugins' = plugins \cup {found.plugin}
           /\ index' = found.index
    /\ steps' = steps + 1
    /\ UNCHANGED <<layout, project_bytes, caller, metadata, pc, result, metaAt>>

\* Mutant: a failing plugin record is skipped and the scan goes on.
PluginError_Resume ==
    /\ pc = "scan"
    /\ index < Len(project_bytes)
    /\ project_bytes[index + 1] = LETTER_P
    /\ (IF metadata = <<>> THEN search_metadata(project_bytes, index)
                           ELSE MatchNone).tag = "none"
    /\ search_plugin(project_bytes, index).tag = "err"
    /\ index' = index + 1
    /\ steps' = steps + 1
    /\ UNCHANGED <<layout, project_bytes, caller, metadata, plugins, pc, result, metaAt>>

\* search_plugin failed on a mandatory field: the ? returns its error.
PluginError ==
    /\ AtLetterP
    /\ TryMetadata.tag = "none"
    /\ LET found == search_plugin(project_bytes, index)
       IN  /\ found.tag \in {"err", "panic"}
           /\ IF found.tag = "panic" THEN Panic
              ELSE Return(Err(found.err))
    /\ steps' = steps + 1

\* Mutant: the cursor stays where neither marker matched.
NoMatch_Stays ==
    /\ pc = "scan"
    /\ index < Len(project_bytes)
    /\ project_bytes[index + 1] = LETTER_P
    /\ (IF metadata = <<>> THEN search_metadata(project_bytes, index)
                           ELSE MatchNone).tag = "none"
    /\ search_plugin(project_bytes, index).tag = "none"
    /\ steps' = steps + 1
    /\ UNCHANGED <<layout, project_bytes, caller, index, metadata, plugins, pc, result, metaAt>>

\* Neither marker is at the cursor.
NoMatch ==
    /\ AtLetterP
    /\ TryMetadata.tag = "none"
    /\ search_plugin(project_bytes, index).tag = "none"
    /\ index' = index + 1
    /\ steps' = steps + 1
    /\ UNCHANGED <<layout, project_bytes, caller, metadata, plugins, pc, result, metaAt>>

\* Mutant: a buffer with plugins but no Metadata yields a Project.
ProjectResult_PluginsSuffice(m, ps) ==
    IF m # <<>> THEN Ok(m[1], ps)
    ELSE IF ps # {} THEN Ok(NoMetadataValue, ps)
    ELSE Err("CorruptProject")

\* metadata.map_or_else(|| Err(CorruptProject), |metadata| Ok(Project {..}))
ProjectResult(m, ps) ==
    IF m = <<>> THEN Err("CorruptProject") ELSE Ok(m[1], ps)

\* The loop condition fails and the function returns.
Finish ==
    /\ pc = "scan"
    /\ ~LoopCondition(project_bytes, index)
    /\ Return(ProjectResult(metadata, plugins))
    /\ UNCHANGED steps

Next ==
    \/ SkipByte
    \/ MetadataFound
    \/ MetadataError
    \/ PluginFound
    \/ PluginError
    \/ NoMatch
    \/ Finish

Spec == Init /\ [][Next]_vars

-----------------------------------------------------------------------------
(* What a buffer holds, stated on the bytes and on the layout alone.        *)

ErrorNames ==
    {"LengthBeyondEOF", "TokenBeyondEOF", "CorruptProject", "NoApplication",
     "NoVersion", "NoReleaseDate", "NoPluginGUID", "NoPluginName",
     "NoTokenAfterPluginName", "NoOriginalPluginName"}

PluginErrorNames ==
    {"NoPluginGUID", "NoPluginName", "NoTokenAfterPluginName", "NoOriginalPluginName"}

\* The bytes of term lie in b from offset i on.
Occurs(term, b, i) ==
    /\ i + Len(term) <= Len(b)
    /\ \A k \in 1..Len(term) : b[i + k] = term[k]

Contains(term, b) == \E i \in 0..Len(b) : Occurs(term, b, i)

HasLetterP(b) == \E k \in 1..Len(b) : b[k] = LETTER_P

Done == pc = "done"

Returned == result[1]

\* The function returned from the end of the loop, not from a matcher's error.
ScanCompleted == Done /\ index >= Len(project_bytes)

-----------------------------------------------------------------------------
(* C1: a Project is returned only if search_metadata succeeded at some     *)
(* cursor during the scan; a scan that reaches the end of the buffer with  *)
(* no Metadata recorded returns Err(CorruptProject) however many plugins   *)
(* were inserted; a buffer with no 'P' byte, the empty one included,       *)
(* returns Err(CorruptProject).                                            *)
C1_ProjectOnlyWithMetadata ==
    Done =>
        /\ Returned.ok => metaAt # <<>> /\ Returned.metadata = metadata[1]
        /\ (ScanCompleted /\ metaAt = <<>>) => result = Err("CorruptProject")
        /\ ~HasLetterP(project_bytes) => result = Err("CorruptProject")

\* Plugins were inserted, no Metadata was found, and the scan ended.
C1_Witness ==
    /\ ScanCompleted
    /\ metaAt = <<>>
    /\ plugins # {}
    /\ result = Err("CorruptProject")

-----------------------------------------------------------------------------
(* C2 as claimed: every buffer with no occurrence of "PAppVersion\0"       *)
(* fails with exactly CorruptProject, whatever plugin records it holds.    *)
C2_AlwaysCorruptProject ==
    (Done /\ ~Contains(APP_VERSION_SEARCH_TERM, project_bytes))
        => result = Err("CorruptProject")

(* C2 as amended: a buffer with no occurrence of "PAppVersion\0" never     *)
(* yields a Project; it fails with CorruptProject when the scan reaches    *)
(* the end of the buffer, and otherwise with the error search_plugin       *)
(* raised at a "Plugin UID\0" marker (NoPluginGUID, NoPluginName,          *)
(* NoTokenAfterPluginName or NoOriginalPluginName).                        *)
C2_NoMarkerNoProject ==
    (Done /\ ~Contains(APP_VERSION_SEARCH_TERM, project_bytes)) =>
        /\ ~Returned.ok
        /\ ScanCompleted => Returned.err = "CorruptProject"
        /\ ~ScanCompleted =>
              /\ Returned.err \in PluginErrorNames
              /\ Occurs(PLUGIN_UID_SEARCH_TERM, project_bytes, index)

\* No metadata marker, a plugin was inserted, and a later plugin record failed.
C2_Witness ==
    /\ Done
    /\ ~Contains(APP_VERSION_SEARCH_TERM, project_bytes)
    /\ plugins # {}
    /\ Returned.err \in PluginErrorNames

-----------------------------------------------------------------------------
(* What the reader should find, stated on the layout: offsets are sums of  *)
(* the lengths of the encoded parts, texts are the texts laid out.         *)

IsFirstMeta(k) ==
    /\ layout[k] \in MetaNames
    /\ \A j \in 1..(k - 1) : layout[j] \notin MetaNames

\* The first n bytes of segment k are in the buffer.
Present(k, n) == SegStart(layout, k) + n <= Len(project_bytes)

\* The bytes of the buffer from the start of segment k on.
Avail(k) == Len(project_bytes) - SegStart(layout, k)

\* Nothing before segment k fails or takes later bytes for its own field: no
\* plugin record with a wrong key, and no metadata record without an
\* architecture field (whose architecture is decoded from what follows it).
CleanBefore(k) == \A j \in 1..(k - 1) : layout[j] \notin {"M2", "P3"}

Complete == Len(project_bytes) = Len(Encode(layout))

\* Every plugin record of the buffer is well formed: its key is "Plugin Name"
\* and it is whole, or cut before the end of its marker (and so not a record).
PluginsIntact ==
    \A j \in 1..Len(layout) :
        layout[j] \in PluginNames =>
            /\ layout[j] # "P3"
            /\ j = Len(layout) =>
                  Complete \/ Avail(j) < Len(PLUGIN_UID_SEARCH_TERM)

ExpectedPlugin(p) ==
    [guid |-> FieldText(p.guid),
     name |-> IF HasOriginal(p) THEN FieldText(p.original) ELSE FieldText(p.name)]

\* Offsets, from the start of a metadata record, of the end of each field.
ApplicationEnd(m) ==
    Len(APP_VERSION_SEARCH_TERM) + APP_VERSION_PADDING + Len(EncodeField(m.application))

VersionEnd(m) ==
    ApplicationEnd(m) + APPLICATION_PADDING + Len(EncodeField(VersionField(m)))

ReleaseDateEnd(m) ==
    VersionEnd(m) + VERSION_PADDING + Len(EncodeField(m.release_date))

ArchitectureStart(m) == ReleaseDateEnd(m) + RELEASE_DATE_PADDING

\* Offsets, from the start of a plugin record, of the end of each field.
GuidEnd(p) ==
    Len(PLUGIN_UID_SEARCH_TERM) + PLUGIN_UID_PADDING + Len(EncodeField(p.guid))

NameKeyEnd(p) == GuidEnd(p) + GUID_PADDING + Len(EncodeField(p.key))

NameEnd(p) == NameKeyEnd(p) + NAME_KEY_PADDING + Len(EncodeField(p.name))

NextKeyEnd(p) == NameEnd(p) + NAME_PADDING + Len(EncodeField(p.next))

OriginalEnd(p) == NextKeyEnd(p) + ORIGINAL_KEY_PADDING + Len(EncodeField(p.original))

-----------------------------------------------------------------------------
-----------------------------------------------------------------------------
(* C4: when the first metadata record decodes up to its release date and   *)
(* the architecture field cannot be decoded (its length byte, or the       *)
(* payload that byte announces, lies past the end of the buffer), the      *)
(* Metadata found has architecture "Unspecified" and the other three       *)
(* fields as laid out, and a Project is returned when the plugin records   *)
(* are well formed.                                                        *)
ArchitectureUndecodable(k) ==
    LET off == SegStart(layout, k) + ArchitectureStart(MetaRecord(layout[k]))
    IN  \/ off >= Len(project_bytes)
        \/ off + 1 + project_bytes[off + 1] > Len(project_bytes)

C4_Case(k) ==
    /\ IsFirstMeta(k)
    /\ Present(k, ReleaseDateEnd(MetaRecord(layout[k])))
    /\ ArchitectureUndecodable(k)

-----------------------------------------------------------------------------
(* C5: when the buffer ends inside the record of a recognized marker, the  *)
(* error names the first mandatory field that is not whole: NoApplication, *)
(* NoVersion, NoReleaseDate after "PAppVersion\0"; NoPluginGUID,           *)
(* NoPluginName (key or name), NoTokenAfterPluginName and                  *)
(* NoOriginalPluginName after "Plugin UID\0".                              *)

\* The error for a metadata record of which only the first n bytes exist
\* ("" when the marker is not whole or the mandatory fields all are).
MetaTruncationError(m, n) ==
    IF n < Len(APP_VERSION_SEARCH_TERM) THEN ""
    ELSE IF n < ApplicationEnd(m) THEN "NoApplication"
    ELSE IF n < VersionEnd(m) THEN "NoVersion"
    ELSE IF n < ReleaseDateEnd(m) THEN "NoReleaseDate"
    ELSE ""

\* The same for a plugin record with the key "Plugin Name".
PluginTruncationError(p, n) ==
    IF n < Len(PLUGIN_UID_SEARCH_TERM) THEN ""
    ELSE IF n < GuidEnd(p) THEN "NoPluginGUID"
    ELSE IF n < NameKeyEnd(p) THEN "NoPluginName"
    ELSE IF n < NameEnd(p) THEN "NoPluginName"
    ELSE IF n < NextKeyEnd(p) THEN "NoTokenAfterPluginName"
    ELSE IF HasOriginal(p) /\ n < OriginalEnd(p) THEN "NoOriginalPluginName"
    ELSE ""

\* The last segment is a record the scan tries, and the buffer ends in it.
TruncationError ==
    LET k == Len(layout)
    IN  IF layout = <<>> \/ ~CleanBefore(k) THEN ""
        ELSE IF IsFirstMeta(k)
        THEN MetaTruncationError(MetaRecord(layout[k]), Avail(k))
        ELSE IF layout[k] \in PluginNames \ {"P3"}
        THEN PluginTruncationError(PluginRecord(layout[k]), Avail(k))
        ELSE ""

C5_ErrorNamesFirstMissingField ==
    (Done /\ TruncationError # "") =>
        /\ result = Err(TruncationError)
        /\ index = SegStart(layout, Len(layout))

\* Each of the seven errors is the error of some truncation; this one is the
\* replacement name missing after an "Original Plugin Name" key.
C5_Witness ==
    /\ Done
    /\ TruncationError = "NoOriginalPluginName"
    /\ result = Err("NoOriginalPluginName")

-----------------------------------------------------------------------------
(* C6: a whole buffer of well-formed records, with a four-field metadata   *)
(* record and N plugin records, yields a Project whose plugin set is       *)
(* exactly the set of the (guid, name) pairs laid out: as many members as  *)
(* there are distinct pairs, one for a pair laid out several times.        *)
WellFormedBuffer ==
    /\ Complete
    /\ \E k \in 1..Len(layout) : layout[k] = "M1"
    /\ \A k \in 1..Len(layout) : layout[k] \notin {"M2", "P3"}

PluginSegments == {k \in 1..Len(layout) : layout[k] \in PluginNames}

ExpectedPlugins == {ExpectedPlugin(PluginRecord(layout[k])) : k \in PluginSegments}

C6_PluginSetIsDistinctPairs ==
    (Done /\ WellFormedBuffer) =>
        /\ Returned.ok
        /\ Returned.plugins = ExpectedPlugins
        /\ Cardinality(Returned.plugins)
              = Cardinality({layout[k] : k \in PluginSegments})

\* Two plugin records with distinct pairs after the metadata record.
C6_Witness ==
    /\ Done
    /\ WellFormedBuffer
    /\ layout[1] = "M1"
    /\ Cardinality(PluginSegments) = 2
    /\ Cardinality(Returned.plugins) = 2

-----------------------------------------------------------------------------
(* C7: a plugin inserted from a record whose name is followed by the key   *)
(* "Original Plugin Name" has the replacement name laid out 5 bytes after  *)
(* that key, never the name decoded first; with any other key it has the   *)
(* name decoded first.                                                     *)
C7_OriginalNameReplacesName ==
    /\ \A p \in plugins :
          \E k \in PluginSegments : p = ExpectedPlugin(PluginRecord(layout[k]))
    /\ \A k \in PluginSegments :
          (/\ CleanBefore(k)
           /\ layout[k] # "P3"
           /\ Present(k, Len(EncodePlugin(PluginRecord(layout[k]))))
           /\ index > SegStart(layout, k))
              => ExpectedPlugin(PluginRecord(layout[k])) \in plugins

\* A plugin was inserted under its replacement name.
C7_Witness ==
    \E k \in PluginSegments :
        /\ HasOriginal(PluginRecord(layout[k]))
        /\ [guid |-> FieldText(PluginRecord(layout[k]).guid),
            name |-> FieldText(PluginRecord(layout[k]).original)] \in plugins
        /\ FieldText(PluginRecord(layout[k]).original)
              # FieldText(PluginRecord(layout[k]).name)

-----------------------------------------------------------------------------
(* C8: when "Plugin UID\0" matches at the cursor and the key decoded after *)
(* the GUID is not exactly "Plugin Name", the extraction fails with        *)
(* NoPluginName at that cursor, also when Metadata was recorded and only   *)
(* well-formed records follow.                                             *)
WrongKeyAt(k) ==
    /\ layout[k] = "P3"
    /\ Present(k, NameKeyEnd(PluginRecord("P3")))
    /\ CleanBefore(k)

C8_WrongKeyFailsExtraction ==
    Done =>
        \A k \in 1..Len(layout) :
            WrongKeyAt(k) =>
                /\ result = Err("NoPluginName")
                /\ index = SegStart(layout, k)

\* Metadata was recorded, the record with the wrong key is whole and a
\* well-formed plugin record follows it.
C8_Witness ==
    /\ Done
    /\ metadata # <<>>
    /\ result = Err("NoPluginName")
    /\ \E k \in 1..(Len(layout) - 1) :
          /\ WrongKeyAt(k)
          /\ layout[k + 1] = "P1"
          /\ Complete

-----------------------------------------------------------------------------
(* C9: a mandatory-field failure of search_metadata or search_plugin ends  *)
(* the scan at that step: the next step returns that error, not a Project, *)
(* with the cursor, the Metadata and the plugins as they were, also when   *)
(* Metadata and plugins had been decoded; and nothing is done after the    *)
(* return, so the scan never resumes past the failing record.              *)

\* The error of the matcher the loop body calls at the cursor ("" if none).
FailureAtCursor ==
    IF pc = "scan" /\ index < Len(project_bytes)
       /\ project_bytes[index + 1] = LETTER_P
    THEN LET m == IF metadata = <<>>
                  THEN search_metadata(project_bytes, index)
                  ELSE MatchNone
             p == search_plugin(project_bytes, index)
         IN  IF m.tag = "err" THEN m.err
             ELSE IF m.tag = "none" /\ p.tag = "err" THEN p.err
             ELSE ""
    ELSE ""

C9_FailureEndsScan ==
    [][/\ FailureAtCursor # "" =>
              /\ pc' = "done"
              /\ result' = Err(FailureAtCursor)
              /\ UNCHANGED <<index, metadata, plugins>>
       /\ pc # "done"]_vars

\* A plugin record failed after Metadata and a plugin had been decoded.
C9_Witness ==
    /\ Done
    /\ metadata # <<>>
    /\ plugins # {}
    /\ ~Returned.ok
    /\ Returned.err \in PluginErrorNames
    /\ index < Len(project_bytes)

-----------------------------------------------------------------------------
(* C10: for every buffer the extraction never panics: no slice and no      *)
(* indexing of project_bytes is out of range, also after a matcher moved   *)
(* the cursor past the end of the buffer; at every cursor the matchers     *)
(* give no match, a record or an error, and what is returned is a Project  *)
(* or one of the errors of Error.                                          *)
C10_NeverPanics ==
    /\ pc \in {"scan", "done"}
    /\ index >= 0
    /\ pc = "scan" => result = NoResult
    /\ AtLetterP =>
          /\ TryMetadata.tag \in {"none", "some", "err"}
          /\ search_plugin(project_bytes, index).tag \in {"none", "some", "err"}
    /\ Done => \/ Returned.ok
               \/ Returned.err \in ErrorNames

\* A matcher moved the cursor past the end of the buffer (over padding that
\* is not there) and the Project was returned.
C10_Witness ==
    /\ Done
    /\ Returned.ok
    /\ index > Len(project_bytes)

-----------------------------------------------------------------------------
(* Two calls of get_project_details on the same bytes.  Reader holds only   *)
(* the borrowed bytes (reader.rs 36-44) and get_project_details takes       *)
(* &self and starts from fresh locals (reader.rs 48-52).                    *)

\* Mutant: the cursor is kept from the call before.
SecondCall_KeepsCursor ==
    /\ pc = "done"
    /\ call = 1
    /\ call' = call + 1
    /\ earlier' = result
    /\ metadata' = <<>>
    /\ plugins' = {}
    /\ pc' = "scan"
    /\ result' = NoResult
    /\ metaAt' = <<>>
    /\ steps' = 0
    /\ UNCHANGED <<layout, project_bytes, file, index>>

\* The first call has returned and the bytes are decoded once more.
SecondCall ==
    /\ pc = "done"
    /\ call = 1
    /\ call' = call + 1
    /\ earlier' = result
    /\ index' = 0
    /\ metadata' = <<>>
    /\ plugins' = {}
    /\ pc' = "scan"
    /\ result' = NoResult
    /\ metaAt' = <<>>
    /\ steps' = 0
    /\ UNCHANGED <<layout, project_bytes, file>>

NextTwice ==
    \/ Next
    \/ SecondCall

SpecTwice == Init /\ [][NextTwice]_vars

-----------------------------------------------------------------------------
(* Processor::process_cubase_project_file (main.rs 210-219), called for one *)
(* file after another by process_cubase_project_path (main.rs 175-197),     *)
(* which prints an error and goes on with the next file.  Here pc is also   *)
(* "idle": between two files.                                               *)

MaxFiles == 2

WholeFile(lay) == [layout |-> lay, cut |-> Len(Encode(lay))]

CutFile(lay, n) == [layout |-> lay, cut |-> n]

\* The project files on disk: two that parse, one with no marker, one cut
\* inside a plugin record and one cut inside the metadata record.
ProjectFiles ==
    { WholeFile(<<"M1", "P1">>),
      WholeFile(<<"M1", "P2">>),
      WholeFile(<<"x">>),
      CutFile(<<"P1">>, Len(PLUGIN_UID_SEARCH_TERM) + 1),
      CutFile(<<"M1">>, Len(APP_VERSION_SEARCH_TERM) + 1) }

FileBytes(f) == SubSeq(Encode(f.layout), 1, f.cut)

\* Processor::new: project_bytes: Vec::new()
InitProcessor ==
    /\ layout = <<>>
    /\ project_bytes = <<>>
    /\ index = 0
    /\ metadata = <<>>
    /\ plugins = {}
    /\ pc = "idle"
    /\ result = NoResult
    /\ metaAt = <<>>
    /\ steps = 0
    /\ call = 0
    /\ earlier = <<>>
    /\ file = <<>>

\* File::open(project_file_path) fails: the ? returns before any read.
OpenFails ==
    /\ pc = "idle"
    /\ call < MaxFiles
    /\ call' = call + 1
    /\ UNCHANGED <<layout, project_bytes, index, metadata, plugins, pc, result,
                   metaAt, steps, earlier, file>>

\* file.read_to_end(&mut self.project_bytes) fails: what was read before the
\* error has been appended, and the ? returns.
ReadFails ==
    /\ pc = "idle"
    /\ call < MaxFiles
    /\ \E f \in ProjectFiles :
          \E n \in {0, Len(FileBytes(f)) \div 2} :
              project_bytes' = project_bytes \o SubSeq(FileBytes(f), 1, n)
    /\ call' = call + 1
    /\ UNCHANGED <<layout, index, metadata, plugins, pc, result, metaAt, steps,
                   earlier, file>>

\* read_to_end appends the whole file to self.project_bytes, and
\* Reader::new(&self.project_bytes).get_project_details() is entered.
ReadFile ==
    /\ pc = "idle"
    /\ call < MaxFiles
    /\ \E f \in ProjectFiles :
          /\ project_bytes' = project_bytes \o FileBytes(f)
          /\ file' = <<FileBytes(f)>>
          /\ layout' = f.layout
    /\ call' = call + 1
    /\ index' = 0
    /\ metadata' = <<>>
    /\ plugins' = {}
    /\ pc' = "scan"
    /\ result' = NoResult
    /\ metaAt' = <<>>
    /\ steps' = 0
    /\ UNCHANGED earlier

\* get_project_details returned a Project: self.project_bytes.clear()
ParseSucceeds ==
    /\ pc = "done"
    /\ Returned.ok
    /\ project_bytes' = <<>>
    /\ earlier' = result
    /\ pc' = "idle"
    /\ UNCHANGED <<layout, index, metadata, plugins, result, metaAt, steps, call, file>>

\* get_project_details returned an error: the ? returns it, before the clear.
ParseFails ==
    /\ pc = "done"
    /\ ~Returned.ok
    /\ earlier' = result
    /\ pc' = "idle"
    /\ UNCHANGED <<layout, project_bytes, index, metadata, plugins, result, metaAt,
                   steps, call, file>>

NextProcessor ==
    \/ OpenFails
    \/ ReadFails
    \/ ReadFile
    \/ Next
    \/ ParseSucceeds
    \/ ParseFails

SpecProcessor == InitProcessor /\ [][NextProcessor]_vars

\* C12: whatever files were handled before, and whether their read or their
\* parse failed, the shared buffer is empty before a file is read, and the
\* buffer get_project_details decodes holds exactly the bytes of the file
\* being processed.
C12_BufferIsTheFile ==
    /\ pc = "idle" => project_bytes = <<>>
    /\ pc \in {"scan", "done"} => project_bytes = file[1]

-----------------------------------------------------------------------------
(* C13: Metadata is searched for until it is found and never again: from   *)
(* the step where search_metadata succeeded on, the Metadata and the place *)
(* it was found at stay as they are, a "PAppVersion\0" at the cursor is    *)
(* passed over like any other non-match (the cursor moves on by one byte), *)
(* and the extraction does not fail with NoApplication, NoVersion or       *)
(* NoReleaseDate.                                                          *)

MetadataErrorNames == {"NoApplication", "NoVersion", "NoReleaseDate"}

C13_MetadataSearchedOnce ==
    [][metadata # <<>> =>
          /\ metadata' = metadata
          /\ metaAt' = metaAt
          /\ (pc = "scan" /\ Occurs(APP_VERSION_SEARCH_TERM, project_bytes, index))
                => (pc' = "scan" /\ index' = index + 1)
          /\ pc' = "done" => result'[1].err \notin MetadataErrorNames
      ]_vars

\* A Project was returned from a buffer that holds, after the place the
\* Metadata was found at, a second "PAppVersion\0" whose record is cut off
\* before its application field.
C13_Witness ==
    /\ Done
    /\ Returned.ok
    /\ metaAt # <<>>
    /\ \E i \in (metaAt[1] + 1)..Len(project_bytes) :
          /\ Occurs(APP_VERSION_SEARCH_TERM, project_bytes, i)
          /\ i + Len(APP_VERSION_SEARCH_TERM) + APP_VERSION_PADDING >= Len(project_bytes)

-----------------------------------------------------------------------------
(* C14: while no Metadata is found, a 'P' where search_metadata does not   *)
(* match is still given to search_plugin: a well-formed plugin record laid *)
(* out before any metadata record is inserted into the set once the cursor *)
(* is past its start, and a malformed one (wrong key, or cut off) fails    *)
(* the extraction with its plugin error, no Metadata having been found.    *)

\* Segment k is a plugin record with no metadata record before it.
BeforeMetadata(k) ==
    /\ layout[k] \in PluginNames
    /\ \A j \in 1..k : layout[j] \notin MetaNames
    /\ CleanBefore(k)

PluginRecordEnd(p) == IF HasOriginal(p) THEN OriginalEnd(p) ELSE NextKeyEnd(p)

C14_PluginTriedBeforeMetadata ==
    \A k \in 1..Len(layout) :
        BeforeMetadata(k) =>
            LET p == PluginRecord(layout[k])
            IN  /\ (/\ layout[k] # "P3"
                    /\ Present(k, PluginRecordEnd(p))
                    /\ index > SegStart(layout, k))
                      => ExpectedPlugin(p) \in plugins
                /\ (Done /\ WrongKeyAt(k))
                      => (result = Err("NoPluginName") /\ metadata = <<>>)
                /\ (/\ Done
                    /\ layout[k] # "P3"
                    /\ k = Len(layout)
                    /\ PluginTruncationError(p, Avail(k)) # "")
                      => /\ result = Err(PluginTruncationError(p, Avail(k)))
                         /\ metadata = <<>>

\* A Project was returned whose set holds the plugin of a record laid out
\* before the metadata record.
C14_Witness ==
    /\ Done
    /\ Returned.ok
    /\ \E k \in 1..Len(layout) :
          /\ BeforeMetadata(k)
          /\ metaAt # <<>>
          /\ metaAt[1] > SegStart(layout, k)
          /\ ExpectedPlugin(PluginRecord(layout[k])) \in Returned.plugins

-----------------------------------------------------------------------------
(* Reader::get_token on its own (reader.rs 178-194): every buffer of at     *)
(* most MaxBuf bytes over TokenBytes, decoded at every offset up to one     *)
(* past its end.  Here pc is "token" before the call and "decoded" after    *)
(* it, index is the offset and result holds what get_token returned.        *)

MaxBuf == 4

\* A nul, the lengths 1 to 3, an ASCII letter and a byte of no UTF-8 sequence.
TokenBytes == {0, 1, 2, 3, 65, 255}

TokenBuffers == UNION {[1..n -> TokenBytes] : n \in 0..MaxBuf}

InitToken ==
    \E b \in TokenBuffers :
        \E offset \in 0..(Len(b) + 1) :
            /\ layout = <<>>
            /\ project_bytes = b
            /\ index = offset
            /\ metadata = <<>>
            /\ plugins = {}
            /\ pc = "token"
            /\ result = NoResult
            /\ metaAt = <<>>
            /\ steps = 0
            /\ call = 0
            /\ earlier = <<>>
            /\ file = <<>>

\* self.get_token(index)
DecodeToken ==
    /\ pc = "token"
    /\ result' = <<get_token(project_bytes, index)>>
    /\ pc' = "decoded"
    /\ UNCHANGED <<layout, project_bytes, caller, index, metadata, plugins, metaAt, steps>>

NextToken ==
    \/ DecodeToken

SpecToken == InitToken /\ [][NextToken]_vars

\* What a byte of the payload is in the text, read permissively.
Lossy(byte) == IF byte < 128 THEN byte ELSE REPLACEMENT_CHARACTER

\* What a byte of the payload is in a text equal to the bytes.
Verbatim(byte) == byte

\* The outcome of get_token at the offset, the text being In(byte) for each
\* byte of the payload before its first nul.
TokenOutcome(In(_)) ==
    pc = "decoded" =>
        LET b == project_bytes
            t == result[1]
            readable == index < Len(b)
            fits == readable /\ index + 1 + b[index + 1] <= Len(b)
        IN  /\ (t.tag = "err" /\ t.err = "LengthBeyondEOF") <=> ~readable
            /\ (t.tag = "err" /\ t.err = "TokenBeyondEOF") <=> (readable /\ ~fits)
            /\ t.tag = "ok" <=> fits
            /\ fits =>
                 LET n == b[index + 1]
                     payload == [j \in 1..n |-> b[index + 1 + j]]
                     kept == Len(t.text)
                 IN  /\ t.len = n + 1
                     /\ kept <= n
                     /\ \A j \in 1..kept : payload[j] # 0 /\ t.text[j] = In(payload[j])
                     /\ kept < n => payload[kept + 1] = 0

\* The claim as stated: the text is equal to the payload bytes before the
\* first nul.
C15_TextIsPayloadBytes == TokenOutcome(Verbatim)

\* C15: get_token fails with LengthBeyondEOF exactly when the offset is at or
\* past the end, with TokenBeyondEOF exactly when the length byte n is there
\* and offset + 1 + n is past the end, and otherwise succeeds, consuming
\* n + 1 bytes, with the text decoded permissively (an invalid byte becomes
\* U+FFFD) from the payload bytes before the first nul, or from the whole
\* payload when it has no nul.
C15_TokenOutcome == TokenOutcome(Lossy)

\* A payload of three bytes, an invalid byte, a nul and one byte more: the
\* text is U+FFFD alone and four bytes are consumed.
C15_Witness ==
    /\ pc = "decoded"
    /\ result[1].tag = "ok"
    /\ result[1].len = 4
    /\ result[1].text = <<REPLACEMENT_CHARACTER>>
    /\ project_bytes[index + 3] = 0

-----------------------------------------------------------------------------
(* C16: the scan terminates, stated on finite runs: the iterations are     *)
(* counted in steps, each moves the cursor forward, and they are bounded   *)
(* by the length of the buffer.                                            *)

\* A marker the loop body tries is at the cursor.
MarkerAtCursor ==
    \/ metadata = <<>> /\ Occurs(APP_VERSION_SEARCH_TERM, project_bytes, index)
    \/ Occurs(PLUGIN_UID_SEARCH_TERM, project_bytes, index)

\* C16: the cursor starts at 0 and every iteration that stays in the loop
\* moves it forward, by one where no marker is at the cursor and by at least
\* the length of the marker where one matched; there are at most as many
\* iterations as the buffer has bytes; while the cursor is before the end
\* an iteration is taken, and the call returns with the cursor at or past
\* the end of the buffer or with a matcher's error.
C16_ScanTerminates ==
    /\ [](steps = 0 => index = 0)
    /\ [][(pc = "scan" /\ pc' = "scan") =>
             IF MarkerAtCursor
             THEN index' >= index + Len(PLUGIN_UID_SEARCH_TERM)
             ELSE index' = index + 1]_vars
    /\ [](steps <= Len(project_bytes))
    /\ [](Done => (index >= Len(project_bytes) \/ Returned.err \in PluginErrorNames
                                              \/ Returned.err \in MetadataErrorNames))
    /\ [](pc = "scan" /\ index < Len(project_bytes) =>
             /\ ByteAt(project_bytes, index) # <<>>
             /\ AtLetterP =>
                  /\ TryMetadata.tag \in {"none", "some", "err"}
                  /\ TryMetadata.tag = "none" =>
                       search_plugin(project_bytes, index).tag \in {"none", "some", "err"})

\* The scan took as many iterations as the buffer has bytes, three or more,
\* and returned.
C16_Witness ==
    /\ Done
    /\ steps = Len(project_bytes)
    /\ steps >= 3

-----------------------------------------------------------------------------
(* C17: search_plugin at a record whose key after the name is not          *)
(* "Original Plugin Name".                                                 *)

\* Segment k is a whole plugin record with the key "Plugin Name" and, after
\* the name, a key that is not "Original Plugin Name"; nothing before it
\* fails or reaches into it.
PlainPlugin(k) ==
    /\ layout[k] \in PluginNames \ {"P3"}
    /\ ~HasOriginal(PluginRecord(layout[k]))
    /\ Present(k, NextKeyEnd(PluginRecord(layout[k])))
    /\ CleanBefore(k)

\* The offset in the buffer of the key field after the name of segment k:
\* the end of the name field and its padding.
NextKeyOffset(k) ==
    SegStart(layout, k) + NameEnd(PluginRecord(layout[k])) + NAME_PADDING

\* The claim as stated: the cursor returned is the position after the key
\* field, its offset plus the length consumed for it.
C17_CursorAfterKey ==
    \A k \in 1..Len(layout) :
        (PlainPlugin(k) /\ pc = "scan" /\ index = SegStart(layout, k)) =>
            LET found == search_plugin(project_bytes, index)
                p == PluginRecord(layout[k])
            IN  /\ found.tag = "some"
                /\ found.plugin.name = FieldText(p.name)
                /\ found.index = SegStart(layout, k) + NextKeyEnd(p)

\* C17: when the key after the name is not "Original Plugin Name", the name
\* decoded first stands and the cursor search_plugin returns is the offset
\* of that key field itself (of its length byte): the scan goes on from
\* there, with the plugin in the set.
C17_CursorAtKey ==
    \A k \in 1..Len(layout) :
        PlainPlugin(k) =>
            LET p == PluginRecord(layout[k])
            IN  /\ (pc = "scan" /\ index = SegStart(layout, k)) =>
                      search_plugin(project_bytes, index)
                          = MatchPlugin([guid |-> FieldText(p.guid),
                                         name |-> FieldText(p.name)],
                                        NextKeyOffset(k))
                /\ index > SegStart(layout, k) =>
                      /\ index >= NextKeyOffset(k)
                      /\ [guid |-> FieldText(p.guid), name |-> FieldText(p.name)]
                            \in plugins

\* The scan is at the key field of such a record, the plugin inserted.
C17_Witness ==
    /\ pc = "scan"
    /\ \E k \in 1..Len(layout) :
          /\ PlainPlugin(k)
          /\ index = NextKeyOffset(k)
          /\ ExpectedPlugin(PluginRecord(layout[k])) \in plugins

-----------------------------------------------------------------------------
(* C18: a key after the name that is not "Original Plugin Name" is left    *)
(* to the scan.  The buffers are laid out from the records M1 and P1 and   *)
(* from plugin records whose key field holds a marker (P4, P5).            *)

KeyLayouts == UNION {[1..n -> {"M1", "P1"} \cup MarkerKeyNames] : n \in 1..MaxSegs}

InitKey ==
    \E lay \in KeyLayouts :
        \E cut \in Cuts(lay) :
            /\ layout = lay
            /\ project_bytes = SubSeq(Encode(lay), 1, cut)
            /\ index = 0
            /\ metadata = <<>>
            /\ plugins = {}
            /\ pc = "scan"
            /\ result = NoResult
            /\ metaAt = <<>>
            /\ steps = 0
            /\ call = 1
            /\ earlier = <<>>
            /\ file = <<>>

SpecKey == InitKey /\ [][Next]_vars

\* Segment k is a whole plugin record whose key field holds a marker.
MarkerKeyAt(k) ==
    /\ layout[k] \in MarkerKeyNames
    /\ Present(k, Len(EncodeSegment(layout[k])))

\* The offset in the buffer of the key field of segment k (its length byte).
MarkerKeyOffset(k) ==
    SegStart(layout, k) + Len(EncodePluginHead(MarkerKeyRecord(layout[k])))

\* What search_metadata finds in the record M1.
ExpectedMetadata(m) ==
    [application |-> FieldText(m.application),
     version |-> FieldText(m.version),
     release_date |-> FieldText(m.release_date),
     architecture |-> FieldText(m.architecture)]

\* C18: once the plugin of such a record is inserted the cursor is at the
\* length byte of its key field, not past the field, and the marker held in
\* the key field is recognized when the cursor comes to it: the plugin of
\* the record "Plugin UID\0" begins is inserted, and the metadata of the
\* record "PAppVersion\0" begins is the Metadata found, when none was found
\* before.
C18_KeyFieldIsScanned ==
    \A k \in 1..Len(layout) :
        MarkerKeyAt(k) =>
            /\ index > SegStart(layout, k) =>
                  /\ index >= MarkerKeyOffset(k)
                  /\ ExpectedPlugin(MarkerKeyRecord(layout[k])) \in plugins
            /\ (layout[k] = "P4" /\ index > MarkerKeyOffset(k) + 1) =>
                  ExpectedPlugin(PluginRecord("P1")) \in plugins
            /\ (/\ layout[k] = "P5"
                /\ index > MarkerKeyOffset(k) + 1
                /\ \A j \in 1..(k - 1) : layout[j] \notin {"M1", "P5"})
                  => /\ metadata = <<ExpectedMetadata(MetaRecord("M1"))>>
                     /\ metaAt = <<MarkerKeyOffset(k) + 1>>

\* A Project was returned from the two records alone: its Metadata was found
\* in the key field of one and it holds the plugin found in the key field of
\* the other.
C18_Witness ==
    /\ Done
    /\ Returned.ok
    /\ layout = <<"P5", "P4">>
    /\ metaAt = <<MarkerKeyOffset(1) + 1>>
    /\ ExpectedPlugin(PluginRecord("P1")) \in Returned.plugins
    /\ ExpectedPlugin(MarkerKeyRecord("P4")) \in Returned.plugins

-----------------------------------------------------------------------------
(* C19: the cursor a matcher returns on a match.                           *)

\* The cursor is at the start of segment k, a record that matches there: the
\* first metadata record, whole up to its release date, or a whole plugin
\* record with the key "Plugin Name".
RecordAtCursor(k) ==
    /\ pc = "scan"
    /\ index = SegStart(layout, k)
    /\ CleanBefore(k)
    /\ \/ IsFirstMeta(k) /\ Present(k, ReleaseDateEnd(MetaRecord(layout[k])))
       \/ /\ layout[k] \in PluginNames \ {"P3"}
          /\ Present(k, PluginRecordEnd(PluginRecord(layout[k])))

\* The end of the name field and of its padding.
NameEndPadded(p) == NameEnd(p) + NAME_PADDING

\* The cursor returned for segment k: after the architecture field where one
\* decodes (whatever follows the release date's padding, if it decodes as a
\* field) and at NoArchitecture(m) where none does; after the replacement
\* name where the key is "Original Plugin Name" and at Plain(p) where not.
MatcherCursor(k, NoArchitecture(_), Plain(_)) ==
    IF layout[k] \in MetaNames
    THEN LET m == MetaRecord(layout[k])
             off == SegStart(layout, k) + ArchitectureStart(m)
         IN  IF ArchitectureUndecodable(k)
             THEN SegStart(layout, k) + NoArchitecture(m)
             ELSE off + 1 + project_bytes[off + 1]
    ELSE LET p == PluginRecord(layout[k])
         IN  IF HasOriginal(p)
             THEN SegStart(layout, k) + OriginalEnd(p)
             ELSE SegStart(layout, k) + Plain(p)

\* What the matcher tried at the start of segment k returns.
MatchAtCursor(k) ==
    IF layout[k] \in MetaNames
    THEN search_metadata(project_bytes, index)
    ELSE search_plugin(project_bytes, index)

MatcherReturns(NoArchitecture(_), Plain(_)) ==
    \A k \in 1..Len(layout) :
        RecordAtCursor(k) =>
            /\ MatchAtCursor(k).tag = "some"
            /\ MatchAtCursor(k).index = MatcherCursor(k, NoArchitecture, Plain)

\* The claim as stated: the end of the release-date field when the
\* architecture does not decode, the end of the name field when the key is
\* not "Original Plugin Name".
C19_CursorAfterLastField == MatcherReturns(ReleaseDateEnd, NameEnd)

\* C19: on a match search_metadata returns the end of the architecture field
\* when it decodes and, when it does not, the offset the architecture was
\* tried at: the end of the release-date field plus its 7 padding bytes.
\* search_plugin returns the end of the replacement name when the key is
\* "Original Plugin Name" and, when it is not, the offset of that key: the
\* end of the name field plus its 3 padding bytes.
C19_CursorReturned == MatcherReturns(ArchitectureStart, NameEndPadded)

\* Metadata was found in a record whose architecture does not decode, and
\* the cursor is where the architecture was tried.
C19_Witness ==
    /\ pc = "scan"
    /\ \E k \in 1..Len(layout) :
          /\ C4_Case(k)
          /\ metaAt = <<SegStart(layout, k)>>
          /\ index = SegStart(layout, k) + ArchitectureStart(MetaRecord(layout[k]))
          /\ index > SegStart(layout, k) + ReleaseDateEnd(MetaRecord(layout[k]))

-----------------------------------------------------------------------------
(* C20: the errors of get_token do not leave the matchers.                 *)

TokenErrorNames == {"LengthBeyondEOF", "TokenBeyondEOF"}

\* C20: get_project_details returns a Project or one of eight errors, the
\* seven field errors and CorruptProject, never LengthBeyondEOF or
\* TokenBeyondEOF; and a matcher that fails at the cursor fails with a field
\* error.
C20_TokenErrorsNeverReturned ==
    /\ Done =>
          \/ Returned.ok
          \/ /\ Returned.err \notin TokenErrorNames
             /\ Returned.err \in MetadataErrorNames \cup PluginErrorNames
                                    \cup {"CorruptProject"}
    /\ AtLetterP =>
          /\ TryMetadata.tag = "err" => TryMetadata.err \in MetadataErrorNames
          /\ search_plugin(project_bytes, index).tag = "err" =>
                search_plugin(project_bytes, index).err \in PluginErrorNames

\* NoPluginGUID was returned where get_token failed with TokenBeyondEOF on
\* the GUID field.
C20_Witness ==
    /\ Done
    /\ result = Err("NoPluginGUID")
    /\ get_token(project_bytes,
                 index + Len(PLUGIN_UID_SEARCH_TERM) + PLUGIN_UID_PADDING).err
          = "TokenBeyondEOF"

=============================================================================
